---- MODULE Spec2Model ----
(***************************************************************************)
(* Model of soleurhelper.py: a polling loop that keeps a rolling buffer of *)
(* spot prices, derives MA20 / RSI14 / MACD from it and maps them to a     *)
(* BUY / SELL / HOLD suggestion, ringing the terminal bell on a change.    *)
(*                                                                         *)
(* Prices and indicators are Python floats.  They are modelled as binary   *)
(* floating-point numbers m * 2^e whose significand is rounded to MantBits *)
(* bits, round-to-nearest, ties-to-even, after every arithmetic operation  *)
(* (CPython's float has 53 bits; the exponent range is not modelled, so no *)
(* overflow, underflow, infinity or NaN arises).                           *)
(***************************************************************************)
EXTENDS Integers, Sequences, FiniteSets, TLC

\* ------------------------------------------------------------------ bounds
\* bits of significand kept by the modelled float arithmetic
MantBits == 12
\* longest price feed made of freely chosen values
MaxShortLen == 4
\* length of the structured (flat / jump / drift) price feeds
LongLen == 38
\* saturation value of the consecutive-failure counter
MaxFails == 2
\* longest price sequence handed to an indicator called on its own
MaxLen == 4
\* largest period handed to an indicator called on its own
MaxPeriod == 3

\* ------------------------------------------------ Python float arithmetic
\* Python's None
None == [none |-> TRUE]

Pow2(k) == 2 ^ k

Abs(n) == IF n < 0 THEN -n ELSE n

Sign(n) == IF n < 0 THEN -1 ELSE IF n > 0 THEN 1 ELSE 0

\* number of bits of the natural number n
RECURSIVE BitLen(_)
BitLen(n) ==
  IF n >= 16 THEN 4 + BitLen(n \div 16)
  ELSE IF n >= 8 THEN 4
  ELSE IF n >= 4 THEN 3
  ELSE IF n >= 2 THEN 2
  ELSE n

\* the unique representation of m * 2^e: m odd, or m = 0 and e = 0
RECURSIVE Canon(_, _)
Canon(m, e) ==
  IF m = 0 THEN [m |-> 0, e |-> 0]
  ELSE IF m % 16 = 0 THEN Canon(m \div 16, e + 4)
  ELSE IF m % 2 = 0 THEN Canon(m \div 2, e + 1)
  ELSE [m |-> m, e |-> e]

\* n * 2^e rounded to MantBits significant bits, nearest, ties to even
Round(n, e) ==
  LET a == Abs(n)
      s == BitLen(a) - MantBits
  IN  IF s <= 0 THEN Canon(n, e)
      ELSE LET q == a \div Pow2(s)
               r == a % Pow2(s)
               half == Pow2(s - 1)
               up == r > half \/ (r = half /\ q % 2 = 1)
           IN  Canon(Sign(n) * (IF up THEN q + 1 ELSE q), e + s)

\* float(n) for a Python int n
FromInt(n) == Round(n, 0)

FNeg(x) == [m |-> -x.m, e |-> x.e]

\* x + y.  When the exponents are too far apart to align the significands
\* exactly, the smaller operand only contributes a sticky bit below three
\* guard bits of the larger one.
FAdd(x, y) ==
  IF x.m = 0 THEN y
  ELSE IF y.m = 0 THEN x
  ELSE LET lo == IF x.e < y.e THEN x.e ELSE y.e
           wx == BitLen(Abs(x.m)) + (x.e - lo)
           wy == BitLen(Abs(y.m)) + (y.e - lo)
           big == IF wx >= wy THEN x ELSE y
           small == IF wx >= wy THEN y ELSE x
           g == MantBits + 3 - BitLen(Abs(big.m))
       IN  IF wx <= 2 * MantBits + 3 /\ wy <= 2 * MantBits + 3
           THEN Round(x.m * Pow2(x.e - lo) + y.m * Pow2(y.e - lo), lo)
           ELSE Round(2 * big.m * Pow2(g) + Sign(small.m), big.e - g - 1)

FSub(x, y) == FAdd(x, FNeg(y))

FMul(x, y) == Round(x.m * y.m, x.e + y.e)

\* x / y, y nonzero: a quotient of at least MantBits + 2 bits and a sticky
\* bit for the remainder, then rounded
FDiv(x, y) ==
  IF x.m = 0 THEN [m |-> 0, e |-> 0]
  ELSE LET s == BitLen(Abs(y.m)) + MantBits + 2 - BitLen(Abs(x.m))
           a == Abs(x.m) * Pow2(s)
           q == a \div Abs(y.m)
           r == a % Abs(y.m)
           n == 2 * q + (IF r = 0 THEN 0 ELSE 1)
       IN  Round(Sign(x.m) * Sign(y.m) * n, x.e - y.e - s - 1)

\* x < y and x > y: the sign of the difference (rounding keeps the sign)
FLt(x, y) == FSub(x, y).m < 0

FGt(x, y) == FLt(y, x)

\* ------------------------------------------------------- Python sequences
\* prices[-k:] of a list: its last k elements, the whole list when k is 0
\* or exceeds its length
LastSlice(s, k) ==
  IF k = 0 \/ k >= Len(s) THEN s ELSE SubSeq(s, Len(s) - k + 1, Len(s))

\* prices[i] for a negative index i
NegIndex(s, i) == s[Len(s) + i + 1]

\* sum(s): left to right, starting from the int 0, rounding after every
\* addition
RECURSIVE PySum(_, _, _)
PySum(s, i, acc) ==
  IF i > Len(s) THEN acc ELSE PySum(s, i + 1, FAdd(acc, s[i]))

\* -------------------------------------------------------------- constants
GREEN == "GREEN"
RED == "RED"
YELLOW == "YELLOW"
rsi_buy_th == 35
rsi_sell_th == 65
MAPeriod == 20
RSIPeriod == 14
MACDFast == 12
MACDSlow == 26
MACDSignal == 9
DefaultHistory == 60

\* ------------------------------------------------------------- indicators
\* mutant: averages the first `period` elements instead of the last
moving_average_first(prices, period) ==
  IF Len(prices) < period THEN None
  ELSE FDiv(PySum(SubSeq(prices, 1, period), 1, FromInt(0)), FromInt(period))

\* mutant: divides by the length of the buffer instead of by the period
moving_average_len(prices, period) ==
  IF Len(prices) < period THEN None
  ELSE FDiv(PySum(LastSlice(prices, period), 1, FromInt(0)),
            FromInt(Len(prices)))

moving_average(prices, period) ==
  IF Len(prices) < period THEN None
  ELSE FDiv(PySum(LastSlice(prices, period), 1, FromInt(0)), FromInt(period))

\* the for loop of calculate_rsi, from index i up to -1
RECURSIVE RsiLoop(_, _, _, _)
RsiLoop(prices, i, gains, losses) ==
  IF i >= 0 THEN <<gains, losses>>
  ELSE LET change == FSub(NegIndex(prices, i), NegIndex(prices, i - 1))
       IN  IF change.m > 0
           THEN RsiLoop(prices, i + 1, FAdd(gains, change), losses)
           ELSE RsiLoop(prices, i + 1, gains, FSub(losses, change))

\* mutant: skips the oldest delta of the window
calculate_rsi_short(prices, period) ==
  IF Len(prices) < period + 1 THEN None
  ELSE LET gl == RsiLoop(prices, -period + 1, FromInt(0), FromInt(0))
           avg_gain == FDiv(gl[1], FromInt(period))
           avg_loss == FDiv(gl[2], FromInt(period))
           rs == FDiv(avg_gain, avg_loss)
       IN  IF avg_loss.m = 0 THEN FromInt(100)
           ELSE FSub(FromInt(100),
                     FDiv(FromInt(100), FAdd(FromInt(1), rs)))

calculate_rsi(prices, period) ==
  IF Len(prices) < period + 1 THEN None
  ELSE LET gl == RsiLoop(prices, -period, FromInt(0), FromInt(0))
           avg_gain == FDiv(gl[1], FromInt(period))
           avg_loss == FDiv(gl[2], FromInt(period))
           rs == FDiv(avg_gain, avg_loss)
       IN  IF avg_loss.m = 0 THEN FromInt(100)
           ELSE FSub(FromInt(100),
                     FDiv(FromInt(100), FAdd(FromInt(1), rs)))

\* the loop of the inner function ema, from element i on
RECURSIVE EmaLoop(_, _, _, _, _)
EmaLoop(series, k, k1, i, out) ==
  IF i > Len(series) THEN out
  ELSE IF i = 1 THEN EmaLoop(series, k, k1, 2, <<series[1]>>)
  ELSE EmaLoop(series, k, k1, i + 1,
               Append(out, FAdd(FMul(series[i], k), FMul(out[i - 1], k1))))

ema(series, period) ==
  LET k == FDiv(FromInt(2), FAdd(FromInt(period), FromInt(1)))
      k1 == FSub(FromInt(1), k)
  IN  EmaLoop(series, k, k1, 1, <<>>)

\* [f - s for f, s in zip(a, b)]
ZipSub(a, b) ==
  [i \in 1..(IF Len(a) < Len(b) THEN Len(a) ELSE Len(b)) |->
     FSub(a[i], b[i])]

\* mutant: only waits for `slow` prices
calculate_macd_early(prices, fast, slow, signal) ==
  IF Len(prices) < slow THEN <<None, None>>
  ELSE LET ema_fast == ema(prices, fast)
           ema_slow == ema(prices, slow)
           macd_line_series ==
             ZipSub(LastSlice(ema_fast, Len(ema_slow)), ema_slow)
           signal_line_series == ema(macd_line_series, signal)
       IN  <<macd_line_series[Len(macd_line_series)],
             signal_line_series[Len(signal_line_series)]>>

calculate_macd(prices, fast, slow, signal) ==
  IF Len(prices) < slow + signal THEN <<None, None>>
  ELSE LET ema_fast == ema(prices, fast)
           ema_slow == ema(prices, slow)
           macd_line_series ==
             ZipSub(LastSlice(ema_fast, Len(ema_slow)), ema_slow)
           signal_line_series == ema(macd_line_series, signal)
       IN  <<macd_line_series[Len(macd_line_series)],
             signal_line_series[Len(signal_line_series)]>>

\* ---------------------------------------------------------- decision rule
\* the outcome of comparing a number with None
TypeError == <<"TypeError">>

\* mutant: the RSI thresholds are inclusive
get_action_incl(price, ma20, rsi14, macd, macd_signal) ==
  IF ma20 = None THEN TypeError
  ELSE IF /\ FGt(price, ma20)
          /\ rsi14 /= None
          /\ ~FGt(rsi14, FromInt(rsi_buy_th))
          /\ macd /= None
          /\ macd_signal /= None
          /\ FGt(macd, macd_signal)
       THEN <<"BUY", GREEN>>
  ELSE IF /\ FLt(price, ma20)
          /\ rsi14 /= None
          /\ ~FLt(rsi14, FromInt(rsi_sell_th))
          /\ macd /= None
          /\ macd_signal /= None
          /\ FLt(macd, macd_signal)
       THEN <<"SELL", RED>>
  ELSE <<"HOLD", YELLOW>>

get_action(price, ma20, rsi14, macd, macd_signal) ==
  IF ma20 = None THEN TypeError
  ELSE IF /\ FGt(price, ma20)
          /\ rsi14 /= None
          /\ FLt(rsi14, FromInt(rsi_buy_th))
          /\ macd /= None
          /\ macd_signal /= None
          /\ FGt(macd, macd_signal)
       THEN <<"BUY", GREEN>>
  ELSE IF /\ FLt(price, ma20)
          /\ rsi14 /= None
          /\ FGt(rsi14, FromInt(rsi_sell_th))
          /\ macd /= None
          /\ macd_signal /= None
          /\ FLt(macd, macd_signal)
       THEN <<"SELL", RED>>
  ELSE <<"HOLD", YELLOW>>

\* ------------------------------------------------------------- the state
VARIABLES
  history,      \* parameter of soleur_helper: capacity of the price buffer
  feed,         \* the prices the exchange serves, in order (environment)
  n,            \* number of prices fetched so far (position in feed)
  prices,       \* soleur_helper: the rolling price buffer
  last_action,  \* soleur_helper: the Action of the last change
  pc,           \* position of the loop: "fetch", "sleep" or "crashed"
  price,        \* local: the price just fetched
  ma20,         \* local: moving_average(prices, 20)
  rsi14,        \* local: calculate_rsi(prices, 14)
  macd,         \* local: MACD line
  macd_sig,     \* local: MACD signal
  action,       \* local: the decision of the last deciding tick
  color,        \* local: its colour
  shown,        \* what the last tick printed
  bell,         \* whether the last tick rang the terminal bell
  nfail,        \* history variable: consecutive failed fetches (saturating)
  decided,      \* history variable: decision of the latest deciding tick
  fn,           \* stand-alone call: the function called
  args,         \* stand-alone call: its arguments
  ret           \* stand-alone call: its result

loopVars == <<history, feed, n, prices, last_action, pc, price, ma20, rsi14,
              macd, macd_sig, action, color, shown, bell, nfail, decided>>

callVars == <<fn, args, ret>>

vars == <<history, feed, n, prices, last_action, pc, price, ma20, rsi14,
          macd, macd_sig, action, color, shown, bell, nfail, decided,
          fn, args, ret>>

\* Python's None where the other values are strings
NoAction == "None"

\* ------------------------------------------------------- the environment
\* all sequences over S of length exactly len
RECURSIVE SeqsOfLen(_, _)
SeqsOfLen(S, len) ==
  IF len = 0 THEN {<<>>}
  ELSE {Append(q, v) : q \in SeqsOfLen(S, len - 1), v \in S}

\* all sequences over S of length at most len
SeqsUpTo(S, len) == UNION {SeqsOfLen(S, k) : k \in 0..len}

ShortPrices == {FromInt(1), FromInt(2), FromInt(3)}

ShortFeeds == SeqsOfLen(ShortPrices, MaxShortLen)

\* the price stays at a for t ticks, jumps to b and then drifts by d a tick
JumpFeed(a, t, b, d) ==
  [i \in 1..LongLen |-> FromInt(IF i <= t THEN a ELSE b + (i - t - 1) * d)]

JumpFeeds ==
  {JumpFeed(a, t, 50 - a, d) : a \in {0, 50}, t \in {21, 22},
                               d \in {-2, 0, 2}}

\* 100, 101, ..., 134
Ramp == [i \in 1..35 |-> FromInt(99 + i)]

Feeds ==
  ShortFeeds \cup {f \in JumpFeeds : \A i \in 1..Len(f) : f[i].m >= 0}
             \cup {Ramp}

Histories == {0, 1, 2, 34, 35, 36, DefaultHistory}

\* --------------------------------------------------------- the main loop
Init ==
  /\ history \in Histories
  /\ feed \in Feeds
  /\ n = 0
  /\ prices = <<>>
  /\ last_action = NoAction
  /\ pc = "fetch"
  /\ price = None
  /\ ma20 = None
  /\ rsi14 = None
  /\ macd = None
  /\ macd_sig = None
  /\ action = NoAction
  /\ color = NoAction
  /\ shown = "starting"
  /\ bell = FALSE
  /\ nfail = 0
  /\ decided = NoAction
  /\ fn = "none"
  /\ args = <<>>
  /\ ret = [done |-> FALSE]

\* mutant: evicts as soon as the buffer is full
Push_full(buf, p, cap) ==
  LET appended == Append(buf, p)
  IN  IF Len(appended) >= cap THEN Tail(appended) ELSE appended

\* prices.append(price); if len(prices) > history: prices.pop(0)
Push(buf, p, cap) ==
  LET appended == Append(buf, p)
  IN  IF Len(appended) > cap THEN Tail(appended) ELSE appended

\* mutant: does not wait for the MACD values
Collecting_nomacd(m, r, mline, msig) ==
  m = None \/ r = None

\* ma20 is None or rsi14 is None or macd is None or macd_sig is None
Collecting(m, r, mline, msig) ==
  m = None \/ r = None \/ mline = None \/ msig = None

\* mutant: stays silent on the first decision of the run
Changed_quiet(act, last) == act /= last /\ last /= NoAction

\* action != last_action
Changed(act, last) == act /= last

\* the indicators of a buffer: <<ma20, rsi14, macd, macd_sig>>
Indicators(buf) ==
  LET mc == calculate_macd(buf, MACDFast, MACDSlow, MACDSignal)
  IN  <<moving_average(buf, MAPeriod), calculate_rsi(buf, RSIPeriod),
        mc[1], mc[2]>>

\* the rest of an iteration once the indicators ind of the new buffer are
\* known and, unless data is still being collected, get_action returned res
Report(ind, res) ==
  IF Collecting(ind[1], ind[2], ind[3], ind[4])
  THEN /\ shown' = "collecting"
       /\ bell' = FALSE
       /\ pc' = "sleep"
       /\ UNCHANGED <<last_action, action, color, decided>>
  ELSE IF res = TypeError
  THEN /\ shown' = "traceback"
       /\ bell' = FALSE
       /\ pc' = "crashed"
       /\ UNCHANGED <<last_action, action, color, decided>>
  ELSE /\ action' = res[1]
       /\ color' = res[2]
       /\ bell' = Changed(res[1], last_action)
       /\ last_action' =
            IF Changed(res[1], last_action) THEN res[1] ELSE last_action
       /\ decided' = res[1]
       /\ shown' = "report"
       /\ pc' = "sleep"

\* one iteration of the loop whose fetch succeeds
TickOk ==
  /\ pc = "fetch"
  /\ n < Len(feed)
  /\ n' = n + 1
  /\ price' = feed[n + 1]
  /\ prices' = Push(prices, feed[n + 1], history)
  /\ \E ind \in {Indicators(prices')} :
       /\ ma20' = ind[1]
       /\ rsi14' = ind[2]
       /\ macd' = ind[3]
       /\ macd_sig' = ind[4]
       /\ \E res \in {IF Collecting(ind[1], ind[2], ind[3], ind[4])
                      THEN <<>>
                      ELSE get_action(price', ind[1], ind[2], ind[3],
                                      ind[4])} :
            Report(ind, res)
  /\ nfail' = 0
  /\ UNCHANGED <<history, feed, fn, args, ret>>

\* mutant: a failed fetch drops the collected prices
TickFail_reset ==
  /\ pc = "fetch"
  /\ shown' = "fetch_error"
  /\ bell' = FALSE
  /\ nfail' = IF nfail < MaxFails THEN nfail + 1 ELSE nfail
  /\ pc' = "sleep"
  /\ prices' = <<>>
  /\ UNCHANGED <<history, feed, n, last_action, price, ma20, rsi14,
                 macd, macd_sig, action, color, decided, fn, args, ret>>

\* one iteration of the loop whose fetch raises
TickFail ==
  /\ pc = "fetch"
  /\ shown' = "fetch_error"
  /\ bell' = FALSE
  /\ nfail' = IF nfail < MaxFails THEN nfail + 1 ELSE nfail
  /\ pc' = "sleep"
  /\ UNCHANGED <<history, feed, n, prices, last_action, price, ma20, rsi14,
                 macd, macd_sig, action, color, decided, fn, args, ret>>

\* time.sleep(interval) returns and the loop starts over
Sleep ==
  /\ pc = "sleep"
  /\ pc' = "fetch"
  /\ UNCHANGED <<history, feed, n, prices, last_action, price, ma20, rsi14,
                 macd, macd_sig, action, color, shown, bell, nfail, decided,
                 fn, args, ret>>

Next == TickOk \/ TickFail \/ Sleep

Spec == Init /\ [][Next]_vars

\* ------------------------------------------------------ stand-alone calls
Half == [m |-> 1, e |-> -1]

ActionArgs ==
  {<<p, m, r, l, g>> :
     p \in {FromInt(90), FromInt(100), FromInt(110)},
     m \in {None, FromInt(100)},
     r \in {None, FromInt(30), FromInt(35), FromInt(50), FromInt(65),
            FromInt(70)},
     l \in {None, FromInt(-1), FromInt(1)},
     g \in {None, FromInt(-1), FNeg(Half), Half, FromInt(1)}}

\* the largest MantBits-bit integer: adding to it rounds
MAPrices == {FromInt(0), FromInt(1), FromInt(3), FromInt(2 ^ MantBits - 1)}

MAArgs == {<<q, k>> : q \in SeqsUpTo(MAPrices, MaxLen), k \in 1..MaxPeriod}

\* a price so large that a unit loss next to it is below float precision
BigPrice == [m |-> 1, e |-> MantBits + 4]

RSIPrices == {FromInt(0), FromInt(1), FromInt(3), BigPrice}

RSIArgs == {<<q, k>> : q \in SeqsUpTo(RSIPrices, MaxLen), k \in 1..MaxPeriod}

MACDConsts == {3, 5, 7, 100, 445}

MACDArgs ==
  {<<[i \in 1..len |-> FromInt(c)], MACDFast, MACDSlow, MACDSignal>> :
     c \in MACDConsts,
     len \in {MACDSlow + MACDSignal - 1, MACDSlow + MACDSignal,
              MACDSlow + MACDSignal + 1}}
  \cup {<<Ramp, MACDFast, MACDSlow, MACDSignal>>}
  \cup {<<q, f, f + 1, g>> :
          q \in SeqsUpTo({FromInt(1), FromInt(3)}, MaxLen + 1),
          f \in {1, 2}, g \in {1, 2}}

InitFn ==
  /\ history = DefaultHistory
  /\ feed = <<>>
  /\ n = 0
  /\ prices = <<>>
  /\ last_action = NoAction
  /\ pc = "idle"
  /\ price = None
  /\ ma20 = None
  /\ rsi14 = None
  /\ macd = None
  /\ macd_sig = None
  /\ action = NoAction
  /\ color = NoAction
  /\ shown = "nothing"
  /\ bell = FALSE
  /\ nfail = 0
  /\ decided = NoAction
  /\ ret = [done |-> FALSE]
  /\ \/ fn = "get_action" /\ args \in ActionArgs
     \/ fn = "moving_average" /\ args \in MAArgs
     \/ fn = "calculate_rsi" /\ args \in RSIArgs
     \/ fn = "calculate_macd" /\ args \in MACDArgs

CallGetAction ==
  /\ fn = "get_action"
  /\ ~ret.done
  /\ ret' = [done |-> TRUE,
             val |-> get_action(args[1], args[2], args[3], args[4], args[5])]
  /\ UNCHANGED <<loopVars, fn, args>>

CallMovingAverage ==
  /\ fn = "moving_average"
  /\ ~ret.done
  /\ ret' = [done |-> TRUE, val |-> moving_average(args[1], args[2])]
  /\ UNCHANGED <<loopVars, fn, args>>

CallRsi ==
  /\ fn = "calculate_rsi"
  /\ ~ret.done
  /\ ret' = [done |-> TRUE, val |-> calculate_rsi(args[1], args[2])]
  /\ UNCHANGED <<loopVars, fn, args>>

CallMacd ==
  /\ fn = "calculate_macd"
  /\ ~ret.done
  /\ ret' = [done |-> TRUE,
             val |-> calculate_macd(args[1], args[2], args[3], args[4])]
  /\ UNCHANGED <<loopVars, fn, args>>

NextFn == CallGetAction \/ CallMovingAverage \/ CallRsi \/ CallMacd

SpecFn == InitFn /\ [][NextFn]_vars

\* ================================================================= claims
\* ------------------------------------------------- exact reference values
FLe(x, y) == ~FLt(y, x)

FAbs(x) == [m |-> Abs(x.m), e |-> x.e]

\* the integer a float with a non-negative exponent stands for
IntVal(x) == x.m * 2 ^ x.e

\* twice the value of a float that is a multiple of 1/2
Twice(x) == x.m * 2 ^ (x.e + 1)

RECURSIVE SumInts(_)
SumInts(s) == IF s = <<>> THEN 0 ELSE Head(s) + SumInts(Tail(s))

\* the exact sum of the last k elements of q
WindowSum(q, k) == SumInts([i \in 1..k |-> IntVal(q[Len(q) - k + i])])

\* the last k deltas of q, exactly
WindowDeltas(q, k) ==
  [i \in 1..k |-> IntVal(q[Len(q) - k + i]) - IntVal(q[Len(q) - k + i - 1])]

Gains(q, k) ==
  SumInts([i \in 1..k |-> IF WindowDeltas(q, k)[i] > 0
                          THEN WindowDeltas(q, k)[i] ELSE 0])

Losses(q, k) ==
  SumInts([i \in 1..k |-> IF WindowDeltas(q, k)[i] < 0
                          THEN -WindowDeltas(q, k)[i] ELSE 0])

\* v is S / k up to k roundings: |v*k - S| <= k * 2^-MantBits * S
MeanWithin(v, S, k) ==
  /\ FLe(FMul(FromInt(k), v), FromInt(2 * S + 1))
  /\ FLe(FromInt(S), FAdd(FMul(FromInt(2 * k), v), FromInt(1)))
  /\ LET sc == IF v.e < 0 THEN 2 ^ (-v.e) ELSE 1
         vm == IF v.e < 0 THEN v.m ELSE v.m * 2 ^ v.e
     IN  Abs(vm * k - S * sc) <= (k * S * sc) \div (2 ^ MantBits)

AnyNone(a) == \E i \in 2..5 : a[i] = None

IsConstant(q) == \A i \in 1..Len(q) : q[i] = q[1]

\* ---------------------------------------------------------------------- C2
\* C2: with all four indicators present get_action returns BUY iff
\* price > ma and rsi < 35 and macd > signal, SELL iff price < ma and
\* rsi > 65 and macd < signal, HOLD in every other case (boundary values
\* included), and the BUY and SELL conditions never hold together.
C2_DecisionRule ==
  (fn = "get_action" /\ ret.done /\ ~AnyNone(args)) =>
    LET buy == /\ Twice(args[1]) > Twice(args[2])
               /\ Twice(args[3]) < 2 * 35
               /\ Twice(args[4]) > Twice(args[5])
        sell == /\ Twice(args[1]) < Twice(args[2])
                /\ Twice(args[3]) > 2 * 65
                /\ Twice(args[4]) < Twice(args[5])
    IN  /\ (ret.val[1] = "BUY") <=> buy
        /\ (ret.val[1] = "SELL") <=> sell
        /\ (ret.val[1] = "HOLD") <=> (~buy /\ ~sell)
        /\ ~(buy /\ sell)

\* get_action(110, 100, 30, 1, 0.5) has returned BUY
C2_Witness ==
  /\ fn = "get_action"
  /\ ret.done
  /\ args = <<FromInt(110), FromInt(100), FromInt(30), FromInt(1), Half>>
  /\ ret.val = <<"BUY", GREEN>>

\* ---------------------------------------------------------------------- C3
\* C3: whenever one of movingAverage, rsi, macdLine, macdSignal is None,
\* get_action returns HOLD (no error, never BUY or SELL).
C3_MissingIndicatorHolds ==
  (fn = "get_action" /\ ret.done /\ AnyNone(args)) =>
    ret.val = <<"HOLD", YELLOW>>

\* ---------------------------------------------------------------------- C8
\* C8 as stated: calculate_rsi is None iff len(prices) <= period; otherwise
\* it lies in [0, 100], depends on the last `period` deltas only, and is 100
\* exactly when none of those deltas is negative.
C8_RsiSaturatesIffNoLoss ==
  (fn = "calculate_rsi" /\ ret.done) =>
    LET q == args[1]
        k == args[2]
    IN  /\ (ret.val = None) <=> (Len(q) <= k)
        /\ ret.val /= None =>
             /\ FLe(FromInt(0), ret.val) /\ FLe(ret.val, FromInt(100))
             /\ ret.val = calculate_rsi(LastSlice(q, k + 1), k)
             /\ (ret.val = FromInt(100)) <=> (Losses(q, k) = 0)

\* C8 amended: calculate_rsi is None iff len(prices) <= period; otherwise
\* it lies in [0, 100], depends on the last `period` deltas only, is 100
\* whenever none of those deltas is negative, and with a negative delta it
\* is 100 only when the gains exceed the losses by more than the float
\* precision (2^(MantBits-1) times).
C8_Rsi ==
  (fn = "calculate_rsi" /\ ret.done) =>
    LET q == args[1]
        k == args[2]
    IN  /\ (ret.val = None) <=> (Len(q) <= k)
        /\ ret.val /= None =>
             /\ FLe(FromInt(0), ret.val) /\ FLe(ret.val, FromInt(100))
             /\ ret.val = calculate_rsi(LastSlice(q, k + 1), k)
             /\ Losses(q, k) = 0 => ret.val = FromInt(100)
             /\ (Losses(q, k) > 0 /\ ret.val = FromInt(100)) =>
                  Gains(q, k) \div (2 ^ (MantBits - 1)) >= Losses(q, k)

\* calculate_rsi([1, 0, 0, 3], 2) = 100: an older loss, a flat and a rising
\* delta in the window
C8_Witness ==
  /\ fn = "calculate_rsi"
  /\ ret.done
  /\ args = <<<<FromInt(1), FromInt(0), FromInt(0), FromInt(3)>>, 2>>
  /\ ret.val = FromInt(100)

\* ---------------------------------------------------------------------- C9
\* C9: moving_average is None iff len(prices) < period; otherwise it is the
\* arithmetic mean of the last `period` elements (up to the rounding of the
\* float sum and division), whatever the older elements are, and the call
\* leaves its argument as it was.
C9_MovingAverage ==
  (fn = "moving_average" /\ ret.done) =>
    LET q == args[1]
        k == args[2]
    IN  /\ (ret.val = None) <=> (Len(q) < k)
        /\ ret.val /= None =>
             /\ MeanWithin(ret.val, WindowSum(q, k), k)
             /\ ret.val = moving_average(LastSlice(q, k), k)
        /\ args \in MAArgs

\* moving_average([2^MantBits - 1, 1, 3], 2) = 2: the oldest element is
\* ignored
C9_Witness ==
  /\ fn = "moving_average"
  /\ ret.done
  /\ args = <<<<FromInt(2 ^ MantBits - 1), FromInt(1), FromInt(3)>>, 2>>
  /\ ret.val = FromInt(2)

\* --------------------------------------------------------------------- C10
\* C10 as stated: calculate_macd returns (None, None) iff
\* len(prices) < slow + signal and two numbers otherwise; for a constant
\* series that is long enough both numbers are 0.
C10_MacdConstantIsZero ==
  (fn = "calculate_macd" /\ ret.done) =>
    LET q == args[1]
        enough == Len(q) >= args[3] + args[4]
    IN  /\ (ret.val = <<None, None>>) <=> ~enough
        /\ enough => (ret.val[1] /= None /\ ret.val[2] /= None)
        /\ (enough /\ IsConstant(q)) =>
             (ret.val[1] = FromInt(0) /\ ret.val[2] = FromInt(0))

\* C10 amended: calculate_macd returns (None, None) iff
\* len(prices) < slow + signal and two numbers otherwise; for a constant
\* series c, c, ... that is long enough both numbers are 0 up to float
\* rounding: their magnitude is at most 2^(7-MantBits) * c.
C10_Macd ==
  (fn = "calculate_macd" /\ ret.done) =>
    LET q == args[1]
        enough == Len(q) >= args[3] + args[4]
        tol == FMul(q[1], [m |-> 1, e |-> 7 - MantBits])
    IN  /\ (ret.val = <<None, None>>) <=> ~enough
        /\ enough => (ret.val[1] /= None /\ ret.val[2] /= None)
        /\ (enough /\ IsConstant(q)) =>
             (FLe(FAbs(ret.val[1]), tol) /\ FLe(FAbs(ret.val[2]), tol))

\* calculate_macd of 35 prices 445 with the default periods has returned
\* two numbers that are not both 0
C10_Witness ==
  /\ fn = "calculate_macd"
  /\ ret.done
  /\ args = <<[i \in 1..35 |-> FromInt(445)], MACDFast, MACDSlow, MACDSignal>>
  /\ ret.val[1] /= None
  /\ ret.val[1] /= FromInt(0)

\* ---------------------------------------------------------------------- C1
Min(a, b) == IF a < b THEN a ELSE b

\* C1: after any number of successful ticks the buffer is no longer than
\* `history` and holds exactly the most recent min(n, history) fetched
\* prices, oldest first.
C1_RollingBuffer ==
  /\ Len(prices) <= history
  /\ prices = SubSeq(feed, n - Min(n, history) + 1, n)

\* capacity + 1 distinct prices were fetched and the oldest one is gone
C1_Witness ==
  /\ history = 2
  /\ n = 3
  /\ feed[1] /= feed[2] /\ feed[2] /= feed[3] /\ feed[1] /= feed[3]
  /\ prices = <<feed[2], feed[3]>>

\* ---------------------------------------------------------------------- C4
\* C4: in any interleaving of successful, failed and collecting ticks the
\* bell rings on a tick exactly when that tick evaluates a decision and the
\* decision differs from the one of the latest deciding tick before it (or
\* there was none); after a deciding tick last_action is its decision.
C4_AlertOnChange ==
  [][(pc = "fetch" /\ pc' /= "fetch") =>
       /\ bell' <=> (shown' = "report" /\ action' /= decided)
       /\ shown' = "report" =>
            (last_action' = action' /\ decided' = action')
       /\ shown' /= "report" => last_action' = last_action]_vars

\* the bell has rung for a decision that differs from an earlier decision
C4_Witness ==
  /\ bell
  /\ shown = "report"
  /\ history = DefaultHistory
  /\ n > MACDSlow + MACDSignal
  /\ action /= "HOLD"

\* ---------------------------------------------------------------------- C5
\* C5: a tick whose fetch fails leaves the buffer, last_action, the
\* indicators and the decision as they were, rings no bell, and puts the
\* loop to sleep; the loop never stops, the sleep ends in a new fetch, and a
\* fetch may fail again however many failures preceded it.
C5_FetchFailure ==
  /\ [][(pc = "fetch" /\ shown' = "fetch_error") =>
          /\ prices' = prices
          /\ last_action' = last_action
          /\ <<n, price, ma20, rsi14, macd, macd_sig, action, decided>>' =
               <<n, price, ma20, rsi14, macd, macd_sig, action, decided>>
          /\ ~bell'
          /\ pc' = "sleep"]_vars
  /\ [][pc = "sleep" => pc' = "fetch"]_vars
  /\ [](pc \in {"fetch", "sleep"})
  /\ [](pc = "sleep" => ENABLED Sleep)
  /\ [](pc = "fetch" => ENABLED TickFail)

\* after two failures in a row the loop is about to fetch again and still
\* holds the prices it had
C5_Witness ==
  /\ nfail = MaxFails
  /\ pc = "fetch"
  /\ shown = "fetch_error"
  /\ prices /= <<>>

\* ---------------------------------------------------------------------- C6
AllPresent(m, r, mline, msig) ==
  m /= None /\ r /= None /\ mline /= None /\ msig /= None

\* C6: a tick with a successful fetch evaluates the decision rule iff all
\* four indicators are present, which is iff the buffer holds at least 35
\* prices after the append; otherwise it reports progress, rings no bell
\* and keeps last_action and the latest decision.  With history < 35 no
\* decision is ever evaluated.
C6_DecisionGating ==
  /\ [][n' = n + 1 =>
          /\ (shown' = "report") <=>
               AllPresent(ma20', rsi14', macd', macd_sig')
          /\ AllPresent(ma20', rsi14', macd', macd_sig') <=>
               (Len(prices') >= 35)
          /\ Len(prices') < 35 =>
               /\ shown' = "collecting"
               /\ ~bell'
               /\ last_action' = last_action
               /\ decided' = decided
               /\ action' = action]_vars
  /\ [](history < 35 => (decided = NoAction /\ shown /= "report"))

\* the first tick that decides: the buffer has just reached 35 prices
C6_Witness ==
  /\ shown = "report"
  /\ Len(prices) = 35
  /\ n = 35
  /\ decided /= NoAction

\* ---------------------------------------------------------------------- C7
\* C7 as stated: after the 35 prices 100, 101, ..., 134 went through a
\* buffer of capacity 60, MA20 is 115.5 and RSI14 is 100.
C7_RampGives115 ==
  (feed = Ramp /\ history = DefaultHistory /\ n = 35) =>
    (ma20 = [m |-> 231, e |-> -1] /\ rsi14 = FromInt(100))

\* C7 amended: after the 35 prices 100, 101, ..., 134 went through a buffer
\* of capacity 60, MA20 is the mean of the last 20 of them (115 .. 134),
\* 124.5, and RSI14 is 100.
C7_RampGives124 ==
  (feed = Ramp /\ history = DefaultHistory /\ n = 35) =>
    (ma20 = [m |-> 249, e |-> -1] /\ rsi14 = FromInt(100))

\* the 35th price of the ramp has been processed
C7_Witness ==
  /\ feed = Ramp
  /\ history = DefaultHistory
  /\ n = 35
  /\ shown = "report"
  /\ price = FromInt(134)

====
